---- MODULE Spec2Model ----
(***************************************************************************)
(* Model of the checkpoint merger of sdxl-model-merger:                    *)
(*   merge.py  SDXLModelMerger.load_model / merge_models                   *)
(*   app.py    SDXLMergerInterface.merge_models                            *)
(*                                                                         *)
(* One call of merge_models is one behaviour.  impl says which of the two  *)
(* implementations is called.  Numbers are exact rationals <<num, den>>    *)
(* (floating-point rounding is not modelled); a weight is given in         *)
(* thousandths (600 is 0.6).  A key is a string, modelled as the sequence   *)
(* of its character codes, so that sorted() is the lexicographic order.    *)
(***************************************************************************)
EXTENDS Integers, Sequences, FiniteSets, TLC

\* ------------------------------------------------------------- bounds
MaxModels == 2

\* the period of the progress reports (merge.py:100, app.py:86)
ProgressEvery == 100

\* ------------------------------------------------------------- rationals
RECURSIVE GCD(_, _)
GCD(a, b) == IF b = 0 THEN a ELSE GCD(b, a % b)

Abs(x) == IF x < 0 THEN -x ELSE x

Rat(n, d) ==
    LET g == GCD(Abs(n), Abs(d))
        s == IF d < 0 THEN -1 ELSE 1
    IN  <<(s * n) \div g, (s * d) \div g>>

RAdd(a, b) == Rat(a[1] * b[2] + b[1] * a[2], a[2] * b[2])
RMul(a, b) == Rat(a[1] * b[1], a[2] * b[2])
RDiv(a, b) == Rat(a[1] * b[2], a[2] * b[1])
RSub(a, b) == Rat(a[1] * b[2] - b[1] * a[2], a[2] * b[2])
RLess(a, b) == a[1] * b[2] < b[1] * a[2]
RAbs(a) == <<Abs(a[1]), a[2]>>
Zero == Rat(0, 1)
One == Rat(1, 1)

\* a weight given in thousandths, as the number the code computes with
WeightOf(h) == Rat(h, 1000)

RECURSIVE RSum(_)
RSum(s) == IF s = <<>> THEN Zero ELSE RAdd(Head(s), RSum(Tail(s)))

\* ------------------------------------------------------------- inputs
\* key names: "ab" and "b" (the longer one sorts first)
Keys == {<<1, 2>>, <<2>>}

\* the weights a caller passes, in thousandths
Weights == {0, 400, 600}

\* the tensors a checkpoint file may hold
TensorPool ==
    { [shape |-> <<1>>, dtype |-> "f32", data |-> <<Rat(1, 1)>>],
      [shape |-> <<1>>, dtype |-> "f16", data |-> <<Rat(3, 1)>>],
      [shape |-> <<2>>, dtype |-> "f32", data |-> <<Rat(1, 1), Rat(3, 1)>>] }

EmptyDict == [k \in {} |-> 0]

StateDicts == UNION {[K -> TensorPool] : K \in SUBSET Keys}

\* a file named by the caller: absent, unparsable, or a tensor mapping
Files ==
    { [status |-> "missing", state_dict |-> EmptyDict],
      [status |-> "corrupt", state_dict |-> EmptyDict] }
    \cup {[status |-> "ok", state_dict |-> d] : d \in StateDicts}

\* ------------------------------------------------------------- tensors
\* tensor.float()
Float(t) == [t EXCEPT !.dtype = "f32"]

\* tensor * weight
Scale(t, w) == [t EXCEPT !.data = [e \in DOMAIN t.data |-> RMul(t.data[e], w)]]

\* merged_tensor += other   (same shape)
AddTo(t, u) == [t EXCEPT !.data = [e \in DOMAIN t.data |-> RAdd(t.data[e], u.data[e])]]

\* merged_tensor / total_weight_used
DivBy(t, w) == [t EXCEPT !.data = [e \in DOMAIN t.data |-> RDiv(t.data[e], w)]]

\* ------------------------------------------------------------- sorted()
\* mutant: a shorter key comes before a longer one
LexLessShortFirst(a, b) ==
    \/ Len(a) < Len(b)
    \/ Len(a) = Len(b) /\ \E p \in DOMAIN a :
           a[p] < b[p] /\ \A q \in 1..(p - 1) : a[q] = b[q]

RECURSIVE LexLess(_, _)
LexLess(a, b) ==
    IF a = <<>> THEN b # <<>>
    ELSE IF b = <<>> THEN FALSE
    ELSE IF Head(a) < Head(b) THEN TRUE
    ELSE IF Head(b) < Head(a) THEN FALSE
    ELSE LexLess(Tail(a), Tail(b))

\* mutant: the keys are iterated in the set's own order
unsorted(s) == s

\* sorted(all_keys): all_keys is given in the set's iteration order, its
\* elements differ, and each goes to the place that its rank gives it
sorted(s) ==
    LET rank == [j \in DOMAIN s |->
                    Cardinality({m \in DOMAIN s : LexLess(s[m], s[j])}) + 1]
    IN  [p \in DOMAIN s |-> s[CHOOSE j \in DOMAIN s : rank[j] = p]]

\* the orders in which a set may be iterated
IterationOrders(S) ==
    {s \in [1..Cardinality(S) -> S] : \A a, b \in DOMAIN s : a # b => s[a] # s[b]}

Range(s) == {s[x] : x \in DOMAIN s}

\* ------------------------------------------------------------- state
VARIABLES
    impl,               \* "merge": merge.py is called, "app": app.py is called
    files,              \* the files the call refers to, in the caller's order
    weights,            \* the weights the caller passes, in thousandths
    pc,                 \* the position of the call
    loaded_models,      \* the inputs loaded so far: <<[state_dict, weight]>>
    all_keys,           \* the union of the keys, in the set's iteration order
    i,                  \* the number of keys the loop has processed
    merged_state_dict,  \* merged_state_dict (merge.py), merged (app.py)
    skipped_keys,
    merged_count,
    log,                \* the warnings and skip messages printed
    progress,           \* the fractions passed to progress() (app.py)
    out_file,           \* <<>> or <<the mapping saved>>
    writes,             \* the number of times save_file has written
    outcome,            \* "none" while running, then how the call ended
    visited,            \* the keys the loop has processed, in the order of the visits
    names,              \* the names of the files, in the order of files
    history             \* of each call of app.py that saved: its inputs and its output

vars == <<impl, files, weights, pc, loaded_models, all_keys, i, merged_state_dict,
          skipped_keys, merged_count, log, progress, out_file, writes, outcome,
          visited, names, history>>

\* the name of the n-th file of the caller (merge.py) or of the directory (app.py)
FileName(n) == <<"model", n>>

\* the name app.py gives its output (line 91)
MergedName == <<"merged_model", 0>>

Init ==
    /\ impl \in {"merge", "app"}
    /\ \E n \in 0..MaxModels :
         /\ files \in [1..n -> Files]
         /\ weights \in [1..(IF impl = "merge" THEN n ELSE 2) -> Weights]
    \* app.py takes its files from a directory listing: each of them exists
    /\ impl = "app" => \A f \in DOMAIN files : files[f].status # "missing"
    /\ pc = "check"
    /\ loaded_models = <<>>
    /\ all_keys = <<>>
    /\ i = 0
    /\ merged_state_dict = EmptyDict
    /\ skipped_keys = <<>>
    /\ merged_count = 0
    /\ log = <<>>
    /\ progress = <<>>
    /\ out_file = <<>>
    /\ writes = 0
    /\ outcome = "none"
    /\ visited = <<>>
    /\ names = [n \in DOMAIN files |-> FileName(n)]
    /\ history = <<>>

\* the call ends: by returning or by raising
Finish(how) ==
    /\ pc' = "done"
    /\ outcome' = how

\* ------------------------------------------------------------- merge.py
\* total_weight = sum(weight for _, weight in models.values())
TotalWeight == RSum([n \in DOMAIN weights |-> WeightOf(weights[n])])

\* mutant: any sum other than 1.0 is reported
WeightsNotNormalizedExact(total) == total # One

\* abs(total_weight - 1.0) > 0.01
WeightsNotNormalized(total) == RLess(Rat(1, 100), RAbs(RSub(total, One)))

\* lines 73-76: the weight check only warns
CheckWeights ==
    /\ impl = "merge" /\ pc = "check"
    /\ log' = IF WeightsNotNormalized(TotalWeight)
              THEN Append(log, [kind |-> "warn_weights", key |-> <<>>])
              ELSE log
    /\ pc' = "load"
    /\ UNCHANGED <<names, history, visited, impl, files, weights, loaded_models, all_keys, i, merged_state_dict,
                   skipped_keys, merged_count, progress, out_file, writes, outcome>>

\* the input the loading loop is at
NextInput == Len(loaded_models) + 1

\* lines 80-85 with load_model (39-48): one input is loaded
LoadModel ==
    /\ impl = "merge" /\ pc = "load"
    /\ NextInput <= Len(files)
    /\ files[NextInput].status = "ok"
    /\ loaded_models' = Append(loaded_models,
                               [state_dict |-> files[NextInput].state_dict,
                                weight |-> WeightOf(weights[NextInput])])
    /\ UNCHANGED <<names, history, visited, impl, files, weights, pc, all_keys, i, merged_state_dict,
                   skipped_keys, merged_count, log, progress, out_file, writes, outcome>>

\* mutant: a missing file is passed over as an empty mapping
LoadModelNotFoundSkips ==
    /\ impl = "merge" /\ pc = "load"
    /\ NextInput <= Len(files)
    /\ files[NextInput].status = "missing"
    /\ loaded_models' = Append(loaded_models,
                               [state_dict |-> EmptyDict,
                                weight |-> WeightOf(weights[NextInput])])
    /\ UNCHANGED <<names, history, visited, impl, files, weights, pc, all_keys, i, merged_state_dict,
                   skipped_keys, merged_count, log, progress, out_file, writes, outcome>>

\* load_model, lines 41-42: the file does not exist
LoadModelNotFound ==
    /\ impl = "merge" /\ pc = "load"
    /\ NextInput <= Len(files)
    /\ files[NextInput].status = "missing"
    /\ Finish("FileNotFoundError")
    /\ UNCHANGED <<names, history, visited, impl, files, weights, loaded_models, all_keys, i, merged_state_dict,
                   skipped_keys, merged_count, log, progress, out_file, writes>>

\* mutant: the exception of load_file is printed and not raised again
LoadModelCorruptSwallowed ==
    /\ impl = "merge" /\ pc = "load"
    /\ NextInput <= Len(files)
    /\ files[NextInput].status = "corrupt"
    /\ loaded_models' = Append(loaded_models,
                               [state_dict |-> EmptyDict,
                                weight |-> WeightOf(weights[NextInput])])
    /\ UNCHANGED <<names, history, visited, impl, files, weights, pc, all_keys, i, merged_state_dict,
                   skipped_keys, merged_count, log, progress, out_file, writes, outcome>>

\* load_model, lines 45-51: load_file raises and the exception is raised again
LoadModelCorrupt ==
    /\ impl = "merge" /\ pc = "load"
    /\ NextInput <= Len(files)
    /\ files[NextInput].status = "corrupt"
    /\ Finish("LoadError")
    /\ UNCHANGED <<names, history, visited, impl, files, weights, loaded_models, all_keys, i, merged_state_dict,
                   skipped_keys, merged_count, log, progress, out_file, writes>>

\* the keys of all the loaded mappings
UnionOfKeys == UNION {DOMAIN loaded_models[n].state_dict : n \in DOMAIN loaded_models}

\* lines 87-96: the union of the keys, then the empty accumulators
CollectKeys ==
    /\ impl = "merge" /\ pc = "load"
    /\ NextInput > Len(files)
    /\ all_keys' \in IterationOrders(UnionOfKeys)
    /\ merged_state_dict' = EmptyDict
    /\ skipped_keys' = <<>>
    /\ merged_count' = 0
    /\ i' = 0
    /\ pc' = "loop"
    /\ UNCHANGED <<names, history, visited, impl, files, weights, loaded_models, log, progress, out_file,
                   writes, outcome>>

\* lines 104-110: the inputs that hold the key, in the order of loaded_models
Contributors(key) ==
    SelectSeq(loaded_models, LAMBDA m : key \in DOMAIN m.state_dict)

tensors_to_merge(key) ==
    [n \in DOMAIN Contributors(key) |-> Contributors(key)[n].state_dict[key]]

weights_to_use(key) ==
    [n \in DOMAIN Contributors(key) |-> Contributors(key)[n].weight]

\* lines 119-125
shape_mismatch(tensors) ==
    \E n \in 2..Len(tensors) : tensors[n].shape # tensors[1].shape

\* lines 133-138: the weighted sum of the first n contributors
RECURSIVE WeightedSum(_, _, _)
WeightedSum(tensors, ws, n) ==
    IF n = 1 THEN Scale(Float(tensors[1]), ws[1])
    ELSE AddTo(WeightedSum(tensors, ws, n - 1), Scale(Float(tensors[n]), ws[n]))

\* mutant: the weighted sum is not divided by the weights used
MergeTensorUnnormalized(tensors, ws) == WeightedSum(tensors, ws, Len(tensors))

\* mutant: the weighted sum is divided by the number of contributors
MergeTensorPlainAverage(tensors, ws) ==
    DivBy(WeightedSum(tensors, ws, Len(tensors)), Rat(Len(tensors), 1))

\* mutant: the weighted sum is divided by the weights of all the inputs
MergeTensorGlobalTotal(tensors, ws) ==
    LET total_weight == RSum([n \in DOMAIN loaded_models |-> loaded_models[n].weight])
        merged_tensor == WeightedSum(tensors, ws, Len(tensors))
    IN  IF RLess(Zero, total_weight)
        THEN DivBy(merged_tensor, total_weight)
        ELSE merged_tensor

\* lines 133-143: the weighted sum, divided by the weights used when positive
MergeTensor(tensors, ws) ==
    LET total_weight_used == RSum(ws)
        merged_tensor == WeightedSum(tensors, ws, Len(tensors))
    IN  IF RLess(Zero, total_weight_used)
        THEN DivBy(merged_tensor, total_weight_used)
        ELSE merged_tensor

\* d[key] = t
Put(d, key, t) == [k \in DOMAIN d \cup {key} |-> IF k = key THEN t ELSE d[k]]

\* the key of the iteration the loop is at
CurrentKey == sorted(all_keys)[i + 1]

\* lines 99-101: the progress line of iteration n (1-based)
ProgressLine(n) ==
    IF n % ProgressEvery = 0 THEN <<[kind |-> "progress", key |-> <<>>]>> ELSE <<>>

\* mutant: the sum is accumulated in the first contributor's own tensor
\* (float() returns the tensor itself when it is float32 already)
InputsAfterMergeInPlace(key) ==
    LET first == CHOOSE n \in DOMAIN loaded_models :
                     /\ key \in DOMAIN loaded_models[n].state_dict
                     /\ \A m \in 1..(n - 1) : key \notin DOMAIN loaded_models[m].state_dict
    IN  IF loaded_models[first].state_dict[key].dtype = "f32"
        THEN [loaded_models EXCEPT ![first].state_dict[key] =
                  WeightedSum(tensors_to_merge(key), weights_to_use(key),
                              Len(tensors_to_merge(key)))]
        ELSE loaded_models

\* lines 133-143: what the arithmetic leaves of the loaded inputs.  The
\* product tensor.float() * weight is a new tensor, += and / act on it alone.
InputsAfterMerge(key) == loaded_models

\* mutant: merged_count is not incremented
MergeKeyUncounted ==
    /\ impl = "merge" /\ pc = "loop"
    /\ i < Len(all_keys)
    /\ ~shape_mismatch(tensors_to_merge(CurrentKey))
    /\ merged_state_dict' = Put(merged_state_dict, CurrentKey,
                                MergeTensor(tensors_to_merge(CurrentKey),
                                            weights_to_use(CurrentKey)))
    /\ log' = log \o ProgressLine(i + 1)
    /\ loaded_models' = InputsAfterMerge(CurrentKey)
    /\ i' = i + 1
    /\ visited' = Append(visited, CurrentKey)
    /\ UNCHANGED <<names, history, impl, files, weights, pc, all_keys, skipped_keys,
                   merged_count, progress, out_file, writes, outcome>>

\* lines 98-146: an iteration that merges its key
MergeKey ==
    /\ impl = "merge" /\ pc = "loop"
    /\ i < Len(all_keys)
    /\ ~shape_mismatch(tensors_to_merge(CurrentKey))
    /\ merged_state_dict' = Put(merged_state_dict, CurrentKey,
                                MergeTensor(tensors_to_merge(CurrentKey),
                                            weights_to_use(CurrentKey)))
    /\ merged_count' = merged_count + 1
    /\ log' = log \o ProgressLine(i + 1)
    /\ loaded_models' = InputsAfterMerge(CurrentKey)
    /\ i' = i + 1
    /\ visited' = Append(visited, CurrentKey)
    /\ UNCHANGED <<names, history, impl, files, weights, pc, all_keys, skipped_keys,
                   progress, out_file, writes, outcome>>

\* mutant: a shape mismatch raises out of the loop
SkipKeyRaises ==
    /\ impl = "merge" /\ pc = "loop"
    /\ i < Len(all_keys)
    /\ shape_mismatch(tensors_to_merge(CurrentKey))
    /\ Finish("ShapeError")
    /\ UNCHANGED <<names, history, visited, impl, files, weights, loaded_models, all_keys, i, merged_state_dict,
                   skipped_keys, merged_count, log, progress, out_file, writes>>

\* mutant: a key with a shape mismatch is dropped without a record
SkipKeySilently ==
    /\ impl = "merge" /\ pc = "loop"
    /\ i < Len(all_keys)
    /\ shape_mismatch(tensors_to_merge(CurrentKey))
    /\ log' = log \o ProgressLine(i + 1)
    /\ i' = i + 1
    /\ visited' = Append(visited, CurrentKey)
    /\ UNCHANGED <<names, history, impl, files, weights, pc, loaded_models, all_keys, merged_state_dict,
                   skipped_keys, merged_count, progress, out_file, writes, outcome>>

\* lines 98-130: an iteration that skips its key.  The handler of lines 148-150
\* (any other exception also appends the key to skipped_keys) has no action:
\* tensors_to_merge is never empty, and float(), * and / do not raise on parsed
\* tensors of one shape with numeric weights.  Lines 112-115 do nothing.
SkipKey ==
    /\ impl = "merge" /\ pc = "loop"
    /\ i < Len(all_keys)
    /\ shape_mismatch(tensors_to_merge(CurrentKey))
    /\ skipped_keys' = Append(skipped_keys, CurrentKey)
    /\ log' = log \o ProgressLine(i + 1)
                  \o <<[kind |-> "skip_shape_mismatch", key |-> CurrentKey]>>
    /\ i' = i + 1
    /\ visited' = Append(visited, CurrentKey)
    /\ UNCHANGED <<names, history, impl, files, weights, pc, loaded_models, all_keys, merged_state_dict,
                   merged_count, progress, out_file, writes, outcome>>

\* mutant: the loop is left before its last key
EndLoopEarly ==
    /\ impl = "merge" /\ pc = "loop"
    /\ pc' = "save"
    /\ log' = log \o <<[kind |-> "merged", key |-> <<>>]>>
                  \o (IF skipped_keys # <<>>
                      THEN <<[kind |-> "skipped", key |-> <<>>]>> ELSE <<>>)
    /\ UNCHANGED <<names, history, visited, impl, files, weights, loaded_models, all_keys, i, merged_state_dict,
                   skipped_keys, merged_count, progress, out_file, writes, outcome>>

\* lines 152-154: the loop has ended
EndLoop ==
    /\ impl = "merge" /\ pc = "loop"
    /\ i = Len(all_keys)
    /\ pc' = "save"
    /\ log' = log \o <<[kind |-> "merged", key |-> <<>>]>>
                  \o (IF skipped_keys # <<>>
                      THEN <<[kind |-> "skipped", key |-> <<>>]>> ELSE <<>>)
    /\ UNCHANGED <<names, history, visited, impl, files, weights, loaded_models, all_keys, i, merged_state_dict,
                   skipped_keys, merged_count, progress, out_file, writes, outcome>>

\* lines 159-168: save_file writes the merged mapping
SaveMerged ==
    /\ impl = "merge" /\ pc = "save"
    /\ out_file' = <<merged_state_dict>>
    /\ writes' = writes + 1
    /\ Finish("ok")
    /\ UNCHANGED <<names, history, visited, impl, files, weights, loaded_models, all_keys, i, merged_state_dict,
                   skipped_keys, merged_count, log, progress>>

\* lines 159-172: mkdir or save_file raises and the exception is raised again
SaveFails ==
    /\ impl = "merge" /\ pc = "save"
    /\ Finish("SaveError")
    /\ UNCHANGED <<names, history, visited, impl, files, weights, loaded_models, all_keys, i, merged_state_dict,
                   skipped_keys, merged_count, log, progress, out_file, writes>>

\* ------------------------------------------------------------- app.py
\* total = model1_weight + model2_weight
AppTotal == RAdd(WeightOf(weights[1]), WeightOf(weights[2]))

\* w1 = model1_weight / total, w2 = model2_weight / total
AppWeight(n) == RDiv(WeightOf(weights[n]), AppTotal)

\* lines 35-37: both weights are zero, an error text is returned
AppRejectZeroWeights ==
    /\ impl = "app" /\ pc = "check"
    /\ AppTotal = Zero
    /\ Finish("ErrBothWeightsZero")
    /\ UNCHANGED <<names, history, visited, impl, files, weights, loaded_models, all_keys, i, merged_state_dict,
                   skipped_keys, merged_count, log, progress, out_file, writes>>

\* lines 35-42: the weights are normalised
AppCheckWeights ==
    /\ impl = "app" /\ pc = "check"
    /\ AppTotal # Zero
    /\ progress' = Append(progress, Zero)
    /\ pc' = "glob"
    /\ UNCHANGED <<names, history, visited, impl, files, weights, loaded_models, all_keys, i, merged_state_dict,
                   skipped_keys, merged_count, log, out_file, writes, outcome>>

\* lines 45-52: fewer than two files in the directory, an error text is returned
AppTooFewModels ==
    /\ impl = "app" /\ pc = "glob"
    /\ Len(files) < 2
    /\ Finish("ErrTooFewModels")
    /\ UNCHANGED <<names, history, visited, impl, files, weights, loaded_models, all_keys, i, merged_state_dict,
                   skipped_keys, merged_count, log, progress, out_file, writes>>

\* lines 45-56: the first two files of the listing are taken
AppSelectModels ==
    /\ impl = "app" /\ pc = "glob"
    /\ Len(files) >= 2
    /\ pc' = "load"
    /\ UNCHANGED <<names, history, visited, impl, files, weights, loaded_models, all_keys, i, merged_state_dict,
                   skipped_keys, merged_count, log, progress, out_file, writes, outcome>>

\* progress(0.2, ...) before model1, progress(0.4, ...) before model2
AppLoadFraction(n) == Rat(2 * n, 10)

\* lines 58-62: model1 or model2 is loaded
AppLoadModel ==
    /\ impl = "app" /\ pc = "load"
    /\ NextInput <= 2
    /\ files[NextInput].status = "ok"
    /\ progress' = Append(progress, AppLoadFraction(NextInput))
    /\ loaded_models' = Append(loaded_models,
                               [state_dict |-> files[NextInput].state_dict,
                                weight |-> AppWeight(NextInput)])
    /\ UNCHANGED <<names, history, visited, impl, files, weights, pc, all_keys, i, merged_state_dict,
                   skipped_keys, merged_count, log, out_file, writes, outcome>>

\* lines 58-62 and 109-110: load_file raises, an error text is returned
AppLoadFails ==
    /\ impl = "app" /\ pc = "load"
    /\ NextInput <= 2
    /\ files[NextInput].status = "corrupt"
    /\ progress' = Append(progress, AppLoadFraction(NextInput))
    /\ Finish("ErrException")
    /\ UNCHANGED <<names, history, visited, impl, files, weights, loaded_models, all_keys, i, merged_state_dict,
                   skipped_keys, merged_count, log, out_file, writes>>

\* lines 64-68
AppCollectKeys ==
    /\ impl = "app" /\ pc = "load"
    /\ NextInput > 2
    /\ progress' = Append(progress, Rat(6, 10))
    /\ merged_state_dict' = EmptyDict
    /\ all_keys' \in IterationOrders(UnionOfKeys)
    /\ i' = 0
    /\ pc' = "loop"
    /\ UNCHANGED <<names, history, visited, impl, files, weights, loaded_models, skipped_keys, merged_count,
                   log, out_file, writes, outcome>>

\* lines 71-84: the value app.py gives a key
AppMergeTensor(key) ==
    LET model1 == loaded_models[1].state_dict
        model2 == loaded_models[2].state_dict
        w1 == loaded_models[1].weight
        w2 == loaded_models[2].weight
    IN  IF key \in DOMAIN model1 /\ key \in DOMAIN model2
        THEN IF model1[key].shape = model2[key].shape
             THEN AddTo(Scale(Float(model1[key]), w1), Scale(Float(model2[key]), w2))
             ELSE model1[key]
        ELSE IF key \in DOMAIN model1 THEN model1[key]
        ELSE model2[key]

\* mutant: the iterations are counted from 1
AppProgressOneBased(n) ==
    IF n % ProgressEvery = 0
    THEN <<RAdd(Rat(6, 10), RMul(Rat(n + 1, Len(all_keys)), Rat(3, 10)))>>
    ELSE <<>>

\* lines 86-87: the progress call of iteration n (0-based)
AppProgress(n) ==
    IF n % ProgressEvery = 0
    THEN <<RAdd(Rat(6, 10), RMul(Rat(n, Len(all_keys)), Rat(3, 10)))>>
    ELSE <<>>

\* lines 70-87: one iteration of the key loop
AppMergeKey ==
    /\ impl = "app" /\ pc = "loop"
    /\ i < Len(all_keys)
    /\ merged_state_dict' = Put(merged_state_dict, CurrentKey, AppMergeTensor(CurrentKey))
    /\ progress' = progress \o AppProgress(i)
    /\ i' = i + 1
    /\ visited' = Append(visited, CurrentKey)
    /\ UNCHANGED <<names, history, impl, files, weights, pc, loaded_models, all_keys, skipped_keys,
                   merged_count, log, out_file, writes, outcome>>

\* lines 90-107: the merged mapping is saved and the result is returned
AppSave ==
    /\ impl = "app" /\ pc = "loop"
    /\ i = Len(all_keys)
    /\ out_file' = <<merged_state_dict>>
    /\ writes' = writes + 1
    /\ progress' = progress \o <<Rat(9, 10), One>>
    /\ history' = Append(history, [inputs |-> <<names[1], names[2]>>,
                                   output |-> merged_state_dict])
    /\ Finish("ok")
    /\ UNCHANGED <<names, visited, impl, files, weights, loaded_models, all_keys, i, merged_state_dict,
                   skipped_keys, merged_count, log>>

\* lines 90-92 and 109-110: save_file raises, an error text is returned
AppSaveFails ==
    /\ impl = "app" /\ pc = "loop"
    /\ i = Len(all_keys)
    /\ progress' = Append(progress, Rat(9, 10))
    /\ Finish("ErrException")
    /\ UNCHANGED <<names, history, visited, impl, files, weights, loaded_models, all_keys, i, merged_state_dict,
                   skipped_keys, merged_count, log, out_file, writes>>

\* ------------------------------------------------------------- specification
Next ==
    \/ CheckWeights
    \/ LoadModel
    \/ LoadModelNotFound
    \/ LoadModelCorrupt
    \/ CollectKeys
    \/ MergeKey
    \/ SkipKey
    \/ EndLoop
    \/ SaveMerged
    \/ SaveFails
    \/ AppRejectZeroWeights
    \/ AppCheckWeights
    \/ AppTooFewModels
    \/ AppSelectModels
    \/ AppLoadModel
    \/ AppLoadFails
    \/ AppCollectKeys
    \/ AppMergeKey
    \/ AppSave
    \/ AppSaveFails

Spec == Init /\ [][Next]_vars

\* ------------------------------------------------------------- more inputs
\* merge.py on MaxModels + 1 loadable files of at most one key, with weights
\* whose sums lie at 1.0, within 0.01 of it and further away
OneKeyDicts == UNION {[K -> TensorPool] : K \in SUBSET {<<2>>}}

FineWeights == {0, 400, 595, 600}

InitFine ==
    /\ impl = "merge"
    /\ files \in [1..(MaxModels + 1) -> {[status |-> "ok", state_dict |-> d] : d \in OneKeyDicts}]
    /\ weights \in [1..(MaxModels + 1) -> FineWeights]
    /\ pc = "check"
    /\ loaded_models = <<>>
    /\ all_keys = <<>>
    /\ i = 0
    /\ merged_state_dict = EmptyDict
    /\ skipped_keys = <<>>
    /\ merged_count = 0
    /\ log = <<>>
    /\ progress = <<>>
    /\ out_file = <<>>
    /\ writes = 0
    /\ outcome = "none"
    /\ visited = <<>>
    /\ names = [n \in DOMAIN files |-> FileName(n)]
    /\ history = <<>>

NextFine ==
    \/ CheckWeights
    \/ LoadModel
    \/ CollectKeys
    \/ MergeKey
    \/ SkipKey
    \/ EndLoop
    \/ SaveMerged
    \/ SaveFails

SpecFine == InitFine /\ [][NextFine]_vars

\* ------------------------------------------------------------- long loops
\* app.py on the inputs of Init and, for key loops longer than the period of
\* the progress reports, from the state in which it enters its key loop on
\* two files of MaxBigKeys - 1 or MaxBigKeys keys each
MaxBigKeys == 101

\* the n-th of the key names "00", "01", ... (two characters each)
BigKey(n) == <<n \div 16, n % 16>>

BigDict(n, t) == [k \in {BigKey(m) : m \in 1..n} |-> t]

Ascending(n) == [m \in 1..n |-> BigKey(m)]

Descending(n) == [m \in 1..n |-> BigKey(n + 1 - m)]

InitBigLoop ==
    /\ impl = "app"
    /\ \E n \in {MaxBigKeys - 1, MaxBigKeys} :
         /\ \E t \in TensorPool :
              files = <<[status |-> "ok", state_dict |-> BigDict(n, t)],
                        [status |-> "ok", state_dict |-> BigDict(n, t)]>>
         /\ all_keys \in {Ascending(n), Descending(n)}
    /\ weights = <<600, 400>>
    /\ pc = "loop"
    /\ loaded_models = [n \in 1..2 |-> [state_dict |-> files[n].state_dict,
                                        weight |-> AppWeight(n)]]
    /\ i = 0
    /\ merged_state_dict = EmptyDict
    /\ skipped_keys = <<>>
    /\ merged_count = 0
    /\ log = <<>>
    /\ progress = <<Zero, AppLoadFraction(1), AppLoadFraction(2), Rat(6, 10)>>
    /\ out_file = <<>>
    /\ writes = 0
    /\ outcome = "none"
    /\ visited = <<>>
    /\ names = [n \in DOMAIN files |-> FileName(n)]
    /\ history = <<>>

InitLoop == (Init /\ impl = "app") \/ InitBigLoop

NextLoop ==
    \/ AppRejectZeroWeights
    \/ AppCheckWeights
    \/ AppTooFewModels
    \/ AppSelectModels
    \/ AppLoadModel
    \/ AppLoadFails
    \/ AppCollectKeys
    \/ AppMergeKey
    \/ AppSave
    \/ AppSaveFails

SpecLoop == InitLoop /\ [][NextLoop]_vars

\* ------------------------------------------------------------- repeated calls
\* app.py called again and again on a directory of two uploaded files
MaxCalls == 2

\* sequence s with x put at place p
InsertAt(s, p, x) == SubSeq(s, 1, p - 1) \o <<x>> \o SubSeq(s, p, Len(s))

\* the file merged_model.safetensors that the call has written
MergedFile == [status |-> "ok", state_dict |-> out_file[1]]

\* the button is clicked again (lines 165-179): the next call lists the
\* directory (line 45), which holds the uploaded files in the order they had
\* and, once a call has saved it, merged_model.safetensors (lines 91-92) at
\* the place that the file system gives a new entry
AppNextCall ==
    /\ impl = "app" /\ pc = "done"
    /\ Len(history) < MaxCalls
    /\ IF out_file = <<>>
       THEN files' = files /\ names' = names
       ELSE IF MergedName \in Range(names)
       THEN /\ names' = names
            /\ files' = [n \in DOMAIN files |->
                            IF names[n] = MergedName THEN MergedFile ELSE files[n]]
       ELSE \E p \in 1..(Len(files) + 1) :
                /\ files' = InsertAt(files, p, MergedFile)
                /\ names' = InsertAt(names, p, MergedName)
    /\ pc' = "check"
    /\ loaded_models' = <<>>
    /\ all_keys' = <<>>
    /\ i' = 0
    /\ merged_state_dict' = EmptyDict
    /\ progress' = <<>>
    /\ out_file' = <<>>
    /\ writes' = 0
    /\ outcome' = "none"
    /\ visited' = <<>>
    /\ UNCHANGED <<impl, weights, skipped_keys, merged_count, log, history>>

InitCalls ==
    /\ impl = "app"
    /\ files \in [1..2 -> {[status |-> "ok", state_dict |-> d] : d \in OneKeyDicts}]
    /\ weights \in [1..2 -> Weights]
    /\ pc = "check"
    /\ loaded_models = <<>>
    /\ all_keys = <<>>
    /\ i = 0
    /\ merged_state_dict = EmptyDict
    /\ skipped_keys = <<>>
    /\ merged_count = 0
    /\ log = <<>>
    /\ progress = <<>>
    /\ out_file = <<>>
    /\ writes = 0
    /\ outcome = "none"
    /\ visited = <<>>
    /\ names = [n \in DOMAIN files |-> FileName(n)]
    /\ history = <<>>

NextCalls ==
    \/ AppRejectZeroWeights
    \/ AppCheckWeights
    \/ AppSelectModels
    \/ AppLoadModel
    \/ AppCollectKeys
    \/ AppMergeKey
    \/ AppSave
    \/ AppSaveFails
    \/ AppNextCall

SpecCalls == InitCalls /\ [][NextCalls]_vars

\* ------------------------------------------------------------- claims
\* the keys of the input files
InputKeys == UNION {DOMAIN files[n].state_dict : n \in DOMAIN files}

\* the inputs that hold key k
Holders(k) == {n \in DOMAIN files : k \in DOMAIN files[n].state_dict}

\* the holders of k all have the same shape for it
SameShape(k) ==
    \A m, n \in Holders(k) : files[m].state_dict[k].shape = files[n].state_dict[k].shape

\* the key loop of merge.py has run to its end
LoopFinished ==
    /\ impl = "merge"
    /\ pc = "save" \/ (pc = "done" /\ outcome \in {"ok", "SaveError"})

\* sum(weight_i * tensor_i) / sum(weight_i) at element e of key k, over all inputs
ExpectedAverage(k, e) ==
    RDiv(RSum([n \in DOMAIN files |->
                  RMul(WeightOf(weights[n]), files[n].state_dict[k].data[e])]),
         RSum([n \in DOMAIN files |-> WeightOf(weights[n])]))

\* C1: with positive weights, a key that every input holds with the same shape
\* is given sum(weight_i * tensor_i) / sum(weight_i), element by element.
C1_WeightedAverage ==
    (LoopFinished /\ Len(files) >= 1 /\ \A n \in DOMAIN weights : weights[n] > 0) =>
        \A k \in InputKeys :
            (Holders(k) = DOMAIN files /\ SameShape(k)) =>
                /\ k \in DOMAIN merged_state_dict
                /\ merged_state_dict[k].shape = files[1].state_dict[k].shape
                /\ \A e \in DOMAIN merged_state_dict[k].data :
                       merged_state_dict[k].data[e] = ExpectedAverage(k, e)

\* value 1 at weight 0.6 and value 3 at weight 0.4 have given 1.8
C1_Witness ==
    /\ impl = "merge" /\ outcome = "ok"
    /\ Len(files) = 2 /\ weights = <<600, 400>>
    /\ <<2>> \in DOMAIN files[1].state_dict
    /\ <<2>> \in DOMAIN files[2].state_dict
    /\ files[1].state_dict[<<2>>].data = <<Rat(1, 1)>>
    /\ files[2].state_dict[<<2>>].data = <<Rat(3, 1)>>
    /\ out_file[1][<<2>>].data = <<Rat(18, 10)>>

\* C2 (as claimed): a key that exactly one of N >= 2 inputs holds is given that
\* input's tensor, values and shape unchanged, whatever the input's weight >= 0.
C2_PassThrough ==
    (LoopFinished /\ Len(files) >= 2) =>
        \A k \in InputKeys : \A n \in DOMAIN files :
            Holders(k) = {n} =>
                /\ k \in DOMAIN merged_state_dict
                /\ merged_state_dict[k].shape = files[n].state_dict[k].shape
                /\ merged_state_dict[k].data = files[n].state_dict[k].data

\* the key has two or more holders whose shapes differ
Mismatched(k) == Cardinality(Holders(k)) >= 2 /\ ~SameShape(k)

\* C3: a key whose holders differ in shape is left out of the output, is put in
\* skipped_keys and reported as a shape mismatch; the loop goes on to the
\* remaining keys and the call ends by no error of the key loop.
C3_ShapeMismatchSkipped ==
    impl = "merge" =>
        /\ \A n \in 1..i : Mismatched(sorted(all_keys)[n]) =>
               LET k == sorted(all_keys)[n]
               IN  /\ k \notin DOMAIN merged_state_dict
                   /\ k \in Range(skipped_keys)
                   /\ [kind |-> "skip_shape_mismatch", key |-> k] \in Range(log)
        /\ skipped_keys # <<>> => outcome \in {"none", "ok", "SaveError"}
        /\ (\A n \in DOMAIN files : files[n].status = "ok") =>
               /\ outcome \in {"none", "ok", "SaveError"}
               /\ pc \in {"save", "done"} =>
                      /\ i = Len(all_keys)
                      /\ Range(all_keys) = InputKeys
                      /\ \A k \in InputKeys : Mismatched(k) \/ k \in DOMAIN merged_state_dict

\* "ab" was skipped for its shapes, "b" was merged after it, the file was saved
C3_Witness ==
    /\ impl = "merge" /\ outcome = "ok"
    /\ skipped_keys = <<(<<1, 2>>)>>
    /\ Mismatched(<<1, 2>>)
    /\ Cardinality(Holders(<<2>>)) = 2
    /\ DOMAIN out_file[1] = {<<2>>}

\* C4: when the key loop has finished, each key of the inputs is either in the
\* merged output or in skipped_keys, and not in both.
C4_NoKeyDropped ==
    LoopFinished =>
        /\ \A k \in InputKeys :
               (k \in DOMAIN merged_state_dict) # (k \in Range(skipped_keys))
        /\ DOMAIN merged_state_dict \cup Range(skipped_keys) = InputKeys

\* one key is in the output and the other one in skipped_keys
C4_Witness ==
    /\ LoopFinished /\ pc = "save"
    /\ Cardinality(InputKeys) = 2
    /\ Cardinality(DOMAIN merged_state_dict) = 1
    /\ Len(skipped_keys) = 1

\* C5: merged_count + len(skipped_keys) is the number of keys processed, after
\* every iteration, and len(all_keys), the size of the union, at the end;
\* merged_count is the number of keys of the output.
C5_CountInvariant ==
    impl = "merge" =>
        /\ merged_count + Len(skipped_keys) = i
        /\ merged_count = Cardinality(DOMAIN merged_state_dict)
        /\ LoopFinished =>
               /\ merged_count + Len(skipped_keys) = Len(all_keys)
               /\ Len(all_keys) = Cardinality(InputKeys)

\* in the middle of the loop: one key skipped, one still to come
C5_Witness ==
    /\ impl = "merge" /\ pc = "loop"
    /\ i = 1 /\ Len(all_keys) = 2
    /\ Len(skipped_keys) = 1 /\ merged_count = 0

\* no inputs, or inputs whose weights are all zero
ZeroConfiguration == Len(files) = 0 \/ \A n \in DOMAIN weights : weights[n] = 0

\* C6 (as claimed): a merge with no inputs or with weights that are all zero
\* ends in an error and writes no output, in merge.py and in app.py.
C6_InvalidConfiguration ==
    ZeroConfiguration => (writes = 0 /\ outcome # "ok")

\* C7: the output is written at most once, after every input was loaded and
\* the loop over the union of the keys has ended.
C7_WriteAfterLoop ==
    impl = "merge" =>
        /\ writes <= 1
        /\ (writes = 0) = (out_file = <<>>)
        /\ writes = 1 =>
               /\ Len(loaded_models) = Len(files)
               /\ Range(all_keys) = InputKeys
               /\ i = Len(all_keys)
               /\ out_file = <<merged_state_dict>>
               /\ DOMAIN merged_state_dict \cup Range(skipped_keys) = InputKeys

\* two inputs, two keys, one write
C7_Witness ==
    /\ impl = "merge" /\ writes = 1
    /\ Len(files) = 2 /\ Len(all_keys) = 2

\* C8 (as claimed): when the call fails for a missing file, no other input has
\* been loaded, no key has been merged and no output is written.
C8_NothingLoaded ==
    (impl = "merge" /\ outcome = "FileNotFoundError") =>
        /\ loaded_models = <<>>
        /\ merged_state_dict = EmptyDict
        /\ writes = 0

\* the position of the first input that is not loadable
FirstBad == CHOOSE n \in DOMAIN files :
                /\ files[n].status # "ok"
                /\ \A m \in 1..(n - 1) : files[m].status = "ok"

\* C8 (amended): a missing input file makes the call fail before its key loop:
\* no key is merged and nothing is written; the inputs before the first bad
\* file, and no others, are loaded by then.
C8_FailsBeforeKeyLoop ==
    (impl = "merge" /\ \E n \in DOMAIN files : files[n].status = "missing") =>
        /\ pc \in {"check", "load", "done"}
        /\ all_keys = <<>> /\ i = 0
        /\ merged_state_dict = EmptyDict /\ merged_count = 0 /\ skipped_keys = <<>>
        /\ writes = 0 /\ out_file = <<>>
        /\ Len(loaded_models) < FirstBad
        /\ pc = "done" =>
               /\ Len(loaded_models) = FirstBad - 1
               /\ outcome = IF files[FirstBad].status = "missing"
                            THEN "FileNotFoundError" ELSE "LoadError"

\* the second file is missing: the first one was loaded before the error
C8_Witness ==
    /\ impl = "merge" /\ outcome = "FileNotFoundError"
    /\ Len(files) = 2 /\ Len(loaded_models) = 1

\* C9: an input that cannot be parsed ends the call with the error of the
\* load: the key loop is not entered and nothing is written.
C9_LoadErrorPropagates ==
    (impl = "merge" /\ \E n \in DOMAIN files : files[n].status = "corrupt") =>
        /\ pc \in {"check", "load", "done"}
        /\ all_keys = <<>> /\ i = 0
        /\ merged_state_dict = EmptyDict /\ merged_count = 0 /\ skipped_keys = <<>>
        /\ writes = 0 /\ out_file = <<>>
        /\ Len(loaded_models) < FirstBad
        /\ pc = "done" =>
               /\ Len(loaded_models) = FirstBad - 1
               /\ outcome = IF files[FirstBad].status = "corrupt"
                            THEN "LoadError" ELSE "FileNotFoundError"

\* the second file is corrupt: the call ended with the error of its load
C9_Witness ==
    /\ impl = "merge" /\ outcome = "LoadError"
    /\ Len(files) = 2 /\ Len(loaded_models) = 1
    /\ files[2].status = "corrupt"

\* the state of the accumulators after n iterations over keys
RECURSIVE KeyLoop(_, _)
KeyLoop(keys, n) ==
    IF n = 0
    THEN [merged |-> EmptyDict, skipped |-> <<>>, count |-> 0]
    ELSE LET r == KeyLoop(keys, n - 1)
             k == keys[n]
         IN  IF shape_mismatch(tensors_to_merge(k))
             THEN [r EXCEPT !.skipped = Append(@, k)]
             ELSE [r EXCEPT !.merged = Put(@, k, MergeTensor(tensors_to_merge(k),
                                                             weights_to_use(k))),
                            !.count = @ + 1]

\* C10: the merged mapping, skipped_keys and merged_count of a run are those of
\* a run on the same inputs in which the set of keys iterates in any other order.
C10_Deterministic ==
    LoopFinished =>
        \A o \in IterationOrders(InputKeys) :
            KeyLoop(sorted(o), Len(o)) =
                [merged |-> merged_state_dict, skipped |-> skipped_keys,
                 count |-> merged_count]

\* the set iterated as "b", "ab", and both keys were skipped
C10_Witness ==
    /\ impl = "merge" /\ outcome = "ok"
    /\ all_keys = <<(<<2>>), (<<1, 2>>)>>
    /\ skipped_keys = <<(<<1, 2>>), (<<2>>)>>

\* every input is the same tensor mapping (one input alone, or one given again)
SameInputs == \A n \in DOMAIN files : files[n].state_dict = files[1].state_dict

\* C11: merging one input alone, or one mapping given two or more times, with
\* positive weights gives the keys of the input, each with the shape and the
\* values of the input, and skips no key.
C11_Idempotent ==
    (/\ LoopFinished
     /\ Len(files) >= 1
     /\ \A n \in DOMAIN weights : weights[n] > 0
     /\ SameInputs) =>
        /\ DOMAIN merged_state_dict = DOMAIN files[1].state_dict
        /\ skipped_keys = <<>>
        /\ \A k \in DOMAIN merged_state_dict :
               /\ merged_state_dict[k].shape = files[1].state_dict[k].shape
               /\ merged_state_dict[k].data = files[1].state_dict[k].data

\* a mapping of two keys merged with itself at weights 0.6 and 0.6 and saved
C11_Witness ==
    /\ impl = "merge" /\ outcome = "ok"
    /\ Len(files) = 2 /\ files[1] = files[2]
    /\ weights = <<600, 600>>
    /\ DOMAIN files[1].state_dict = Keys
    /\ DOMAIN out_file[1] = Keys
    /\ \A k \in Keys : out_file[1][k].data = files[1].state_dict[k].data

\* C12 (as claimed): a key that both inputs hold with different shapes is
\* treated by app.py as merge.py treats it on the same two inputs: both leave
\* it out of the output, or both give it the tensor of the first input.
C12_UniformPolicy ==
    (impl = "app" /\ pc = "done" /\ outcome = "ok") =>
        LET model1 == loaded_models[1].state_dict
            model2 == loaded_models[2].state_dict
            by_merge == KeyLoop(sorted(all_keys), Len(all_keys)).merged
            by_app == merged_state_dict
        IN  \A k \in DOMAIN model1 \cap DOMAIN model2 :
                model1[k].shape # model2[k].shape =>
                    \/ k \notin DOMAIN by_merge /\ k \notin DOMAIN by_app
                    \/ /\ k \in DOMAIN by_merge /\ k \in DOMAIN by_app
                       /\ by_merge[k] = model1[k]
                       /\ by_app[k] = model1[k]

\* the sum of the weights of the inputs that hold key k
HolderWeight(k) ==
    RSum([n \in DOMAIN files |-> IF n \in Holders(k) THEN WeightOf(weights[n]) ELSE Zero])

\* sum(weight_i * tensor_i) over the holders of k, at element e
HolderSum(k, e) ==
    RSum([n \in DOMAIN files |->
             IF n \in Holders(k)
             THEN RMul(WeightOf(weights[n]), files[n].state_dict[k].data[e])
             ELSE Zero])

\* C13: a key that two or more inputs, but not all of them, hold with the same
\* shape is given the weighted sum of its holders divided by the sum of the
\* weights of its holders alone (a sum that is positive).
C13_ContributorWeights ==
    LoopFinished =>
        \A k \in InputKeys :
            (/\ Cardinality(Holders(k)) >= 2
             /\ Holders(k) # DOMAIN files
             /\ SameShape(k)
             /\ RLess(Zero, HolderWeight(k))) =>
                /\ k \in DOMAIN merged_state_dict
                /\ \A e \in DOMAIN merged_state_dict[k].data :
                       merged_state_dict[k].data[e] = RDiv(HolderSum(k, e), HolderWeight(k))

\* "b" is 1 at weight 0.6 and 3 at weight 0.4, a third input of weight 0.6
\* does not hold it: the output is 1.8
C13_Witness ==
    /\ impl = "merge" /\ outcome = "ok"
    /\ Len(files) >= 3
    /\ Holders(<<2>>) = {1, 2}
    /\ weights[1] = 600 /\ weights[2] = 400 /\ weights[3] = 600
    /\ files[1].state_dict[<<2>>].data = <<Rat(1, 1)>>
    /\ files[2].state_dict[<<2>>].data = <<Rat(3, 1)>>
    /\ out_file[1][<<2>>].data = <<Rat(18, 10)>>

\* string a is before string b in the lexicographic order
Before(a, b) ==
    \E p \in 1..(Len(a) + 1) :
        /\ p <= Len(b)
        /\ \A q \in 1..(p - 1) : a[q] = b[q]
        /\ p = Len(a) + 1 \/ a[p] < b[p]

\* the key loop of either implementation has run to its end
KeyLoopEnded ==
    \/ LoopFinished
    \/ impl = "app" /\ pc = "done" /\ Len(loaded_models) = 2

\* the visits so far are in strictly increasing order, one per key
VisitedInOrder ==
    /\ Len(visited) = i
    /\ \A a \in 1..(Len(visited) - 1) : Before(visited[a], visited[a + 1])
    /\ \A a, b \in DOMAIN visited : a # b => visited[a] # visited[b]
    /\ Range(visited) \subseteq UnionOfKeys
    /\ KeyLoopEnded => Range(visited) = UnionOfKeys

\* the counts a progress report shows do not decrease in a step
CountsGrow ==
    /\ i' >= i
    /\ merged_count' >= merged_count
    /\ Len(skipped_keys') >= Len(skipped_keys)
    /\ Len(visited') >= Len(visited)

\* C14: in merge.py and in app.py the key loop visits the union of the keys in
\* strictly increasing lexicographic order, each key once, and the counts that
\* the progress reports show never decrease.
C14_SortedVisit == [](VisitedInOrder) /\ [][CountsGrow]_vars

\* both keys visited, "ab" before "b", though the set iterated "b" first
C14_Witness ==
    /\ all_keys = <<(<<2>>), (<<1, 2>>)>>
    /\ visited = <<(<<1, 2>>), (<<2>>)>>
    /\ impl = "app" /\ outcome = "ok"

\* the sum of the weights of the call, in thousandths
RECURSIVE SumOfWeights(_)
SumOfWeights(n) == IF n = 0 THEN 0 ELSE weights[n] + SumOfWeights(n - 1)

\* the sum of the weights is more than 0.01 away from 1.0
FarFromOne ==
    \/ SumOfWeights(Len(weights)) > 1010
    \/ SumOfWeights(Len(weights)) < 990

WeightWarning == [kind |-> "warn_weights", key |-> <<>>]

\* C15: merge.py prints the warning about the weights exactly when their sum is
\* more than 0.01 away from 1.0, and goes on in either case: every input is
\* loaded, the key loop runs as it does on these inputs, the output is saved;
\* no call ends in an error for the sum of its weights.
C15_WarningOnly ==
    impl = "merge" =>
        /\ pc # "check" => (WeightWarning \in Range(log)) = FarFromOne
        /\ Cardinality({n \in DOMAIN log : log[n] = WeightWarning}) <= 1
        /\ outcome \in {"none", "ok", "SaveError", "FileNotFoundError", "LoadError"}
        /\ (\A n \in DOMAIN files : files[n].status = "ok") =>
               /\ outcome \in {"none", "ok", "SaveError"}
               /\ pc \in {"loop", "save", "done"} =>
                      /\ Len(loaded_models) = Len(files)
                      /\ KeyLoop(sorted(all_keys), i) =
                             [merged |-> merged_state_dict, skipped |-> skipped_keys,
                              count |-> merged_count]
               /\ outcome = "ok" => writes = 1 /\ i = Len(all_keys)

\* weights 0.6, 0.6 and 0.4: the warning was printed, "b" merged, the file saved
C15_Witness ==
    /\ impl = "merge" /\ outcome = "ok"
    /\ SumOfWeights(Len(weights)) = 1600
    /\ WeightWarning \in Range(log)
    /\ <<2>> \in DOMAIN out_file[1]

\* C16: a call never changes a loaded input: each loaded mapping has the keys
\* and the tensors of its file, and its weight is the one the caller gave
\* (app.py: divided by the total), whatever state the call is in.
C16_InputsUnchanged ==
    \A n \in DOMAIN loaded_models :
        /\ n \in DOMAIN files
        /\ loaded_models[n].state_dict = files[n].state_dict
        /\ loaded_models[n].weight =
               IF impl = "merge" THEN WeightOf(weights[n]) ELSE AppWeight(n)

\* two float32 tensors of key "b" were summed; both inputs are as loaded
C16_Witness ==
    /\ impl = "merge" /\ outcome = "ok"
    /\ Len(loaded_models) = 2
    /\ Holders(<<2>>) = {1, 2}
    /\ files[1].state_dict[<<2>>].dtype = "f32"
    /\ files[2].state_dict[<<2>>].dtype = "f32"
    /\ weights = <<600, 400>>
    /\ <<2>> \in DOMAIN out_file[1]

RLeq(a, b) == ~RLess(b, a)

\* the fractions that the key loop of app.py has reported: those after the
\* four of lines 42-64 and before those of lines 90 and 105
LoopFractions ==
    LET after == IF pc = "loop" THEN 0 ELSE IF outcome = "ok" THEN 2 ELSE 1
    IN  IF pc = "loop" \/ (pc = "done" /\ Len(loaded_models) = 2)
        THEN SubSeq(progress, 5, Len(progress) - after)
        ELSE <<>>

\* C17: the fractions app.py reports in a call never decrease and lie in
\* [0, 1]; those of the key loop lie in [0.6, 0.9); 1.0 is reported only as
\* the last one, after the output was saved, and by no call that returns an error.
C17_ProgressFractions ==
    impl = "app" =>
        /\ \A a \in DOMAIN progress : RLeq(Zero, progress[a]) /\ RLeq(progress[a], One)
        /\ \A a \in 1..(Len(progress) - 1) : RLeq(progress[a], progress[a + 1])
        /\ \A a \in DOMAIN LoopFractions :
               RLeq(Rat(6, 10), LoopFractions[a]) /\ RLess(LoopFractions[a], Rat(9, 10))
        /\ Len(LoopFractions) = (i + ProgressEvery - 1) \div ProgressEvery
        /\ \A a \in DOMAIN progress :
               progress[a] = One =>
                   a = Len(progress) /\ outcome = "ok" /\ writes = 1 /\ out_file # <<>>
        /\ outcome = "ok" => progress[Len(progress)] = One

\* 101 keys: the loop reported 0.6 and 0.6 + (100 / 101) * 0.3, the file was
\* saved and 1.0 reported
C17_Witness ==
    /\ impl = "app" /\ outcome = "ok"
    /\ Len(all_keys) = 101
    /\ LoopFractions = <<Rat(6, 10), Rat(906, 1010)>>
    /\ progress[Len(progress)] = One

\* C18 (as claimed): the calls of app.py that save, made on the same uploaded
\* files with the same weights, all merge the same two files and give the
\* same output, and none takes merged_model.safetensors as an input.
C18_SameInputsEveryCall ==
    impl = "app" =>
        \A h \in DOMAIN history :
            /\ history[h].inputs = history[1].inputs
            /\ history[h].output = history[1].output
            /\ MergedName \notin Range(history[h].inputs)

====
